---- MODULE Spec2Model ----
(***************************************************************************)
(* KYC-OCR: the image quality gate and deskew pipeline (blur_check.py),    *)
(* its threshold presets (config.py) and the Celery task and status        *)
(* endpoint built around it (app.py).                                      *)
(*                                                                         *)
(* Numbers keep the source's values.  Fractions are kept as integers:      *)
(* glare_threshold and min_doc_area_ratio are in hundredths (0.15 -> 15),  *)
(* min_edge_density in thousandths (0.001 -> 1); every comparison with     *)
(* them is cross-multiplied, so no rounding takes place.                   *)
(***************************************************************************)
EXTENDS Integers, Sequences, FiniteSets, TLC

VARIABLES
    strictness,   \* config.QUALITY_STRICTNESS, read once at import
    img,          \* the bytes the client uploaded (what the file holds)
    file_exists,  \* whether the file at image_path is on disk
    queued,       \* whether apply_async has queued the task
    state,        \* the Celery state of the task (AsyncResult.state)
    retries,      \* self.request.retries
    attempts,     \* how many times process_image_task has run
    preops,       \* what image_preops did in the last run of the task
    result,       \* AsyncResult.result
    response,     \* the last HTTP response sent
    ret           \* the last call of a function applied on its own

vars == <<strictness, img, file_exists, queued, state, retries, attempts,
          preops, result, response, ret>>

(***************************************************************************)
(* Bounds of the model.                                                    *)
(***************************************************************************)
\* The grayscale plane is Units cells of equal pixel count, each of one level.
Units == 20
\* Corner coordinates of the contours handed to deskew_image on its own.
MaxCoord == 2
\* Length of the contour lists handed to has_contours on its own.
MaxContours == 3

(***************************************************************************)
(* config.py                                                               *)
(***************************************************************************)
easy_thresholds ==
    [blur_threshold |-> 20, glare_threshold |-> 15, glare_brightness |-> 250,
     darkness_threshold |-> 15, min_contrast |-> 3, min_width |-> 150,
     min_height |-> 100, min_doc_area_ratio |-> 3, min_edge_density |-> 1]

medium_thresholds ==
    [blur_threshold |-> 30, glare_threshold |-> 10, glare_brightness |-> 245,
     darkness_threshold |-> 25, min_contrast |-> 5, min_width |-> 200,
     min_height |-> 150, min_doc_area_ratio |-> 5, min_edge_density |-> 3]

hard_thresholds_loose_glare ==
    [blur_threshold |-> 80, glare_threshold |-> 5, glare_brightness |-> 250,
     darkness_threshold |-> 40, min_contrast |-> 12, min_width |-> 300,
     min_height |-> 250, min_doc_area_ratio |-> 10, min_edge_density |-> 8]

hard_thresholds ==
    [blur_threshold |-> 80, glare_threshold |-> 5, glare_brightness |-> 235,
     darkness_threshold |-> 40, min_contrast |-> 12, min_width |-> 300,
     min_height |-> 250, min_doc_area_ratio |-> 10, min_edge_density |-> 8]

Strictness == {"easy", "medium", "hard"}

\* thresholds = easy / hard / medium by QUALITY_STRICTNESS
thresholds_of(s) ==
    IF s = "easy" THEN easy_thresholds
    ELSE IF s = "hard" THEN hard_thresholds
    ELSE medium_thresholds

thresholds == thresholds_of(strictness)

\* the shared block of photography instructions
instructions == "Ensure good lighting ... avoid perspective distortion"

(***************************************************************************)
(* Images.  An image is what OpenCV measures of it: its shape, the         *)
(* grayscale plane as a histogram (level -> number of cells), the variance *)
(* of its Laplacian, the number of Canny edge pixels, and the external     *)
(* contours findContours yields, each with its contourArea and its         *)
(* approxPolyDP polygon.                                                   *)
(***************************************************************************)
RECURSIVE SumF(_, _)
SumF(f, S) ==
    IF S = {} THEN 0
    ELSE LET x == CHOOSE y \in S : TRUE IN f[x] + SumF(f, S \ {x})

\* img.shape[0] * img.shape[1], in cells
NumCells(gray) == SumF(gray, DOMAIN gray)
\* sum of the pixel levels, in cells
SumLevels(gray) == SumF([l \in DOMAIN gray |-> l * gray[l]], DOMAIN gray)
SumSquares(gray) == SumF([l \in DOMAIN gray |-> l * l * gray[l]], DOMAIN gray)

\* cv2.imread's None (an unreadable or missing file)
NoneImage ==
    [readable |-> FALSE, w |-> 0, h |-> 0, lap_var |-> 0, gray |-> <<>>,
     edges |-> 0, contours |-> <<>>]

(***************************************************************************)
(* blur_check.py: the six checks                                           *)
(***************************************************************************)
\* std_val < thresh, as  N*sum(l^2) - sum(l)^2 < thresh^2 * N^2
is_low_contrast(image, thresh) ==
    LET n == NumCells(image.gray)
        s == SumLevels(image.gray)
    IN  n * SumSquares(image.gray) - s * s < thresh * thresh * n * n

is_low_resolution_and(image, min_width, min_height) ==
    image.w < min_width /\ image.h < min_height

is_low_resolution(image, min_width, min_height) ==
    image.w < min_width \/ image.h < min_height

\* np.sum(edges > 0) / (rows * cols) < thresh
is_low_edge_density(image, thresh) ==
    image.edges * 1000 < thresh * (image.h * image.w)

is_blurry(image, threshold) == image.lap_var < threshold

\* cv2.threshold(gray, bright_threshold, 255, THRESH_BINARY):
\* 255 where the level is greater than bright_threshold, else 0
threshold_binary(gray, thresh, maxval) ==
    [l \in DOMAIN gray |-> IF l > thresh THEN maxval ELSE 0]

threshold_binary_ge(gray, thresh, maxval) ==
    [l \in DOMAIN gray |-> IF l >= thresh THEN maxval ELSE 0]

\* np.sum(bright_mask == 255)
count_bright(gray, bright_mask) ==
    SumF([l \in DOMAIN gray |-> IF bright_mask[l] = 255 THEN gray[l] ELSE 0],
         DOMAIN gray)

has_glare_ge(image, threshold, bright_threshold) ==
    LET bright_mask == threshold_binary_ge(image.gray, bright_threshold, 255)
    IN  count_bright(image.gray, bright_mask) * 100
            > threshold * NumCells(image.gray)

\* glare_ratio > threshold
has_glare(image, threshold, bright_threshold) ==
    LET bright_mask == threshold_binary(image.gray, bright_threshold, 255)
    IN  count_bright(image.gray, bright_mask) * 100
            > threshold * NumCells(image.gray)

\* mean_brightness < threshold
is_dark(image, threshold) ==
    SumLevels(image.gray) < threshold * NumCells(image.gray)

(***************************************************************************)
(* blur_check.py: has_contours                                             *)
(***************************************************************************)
\* where sorted(..., key=cv2.contourArea, reverse=True) puts c in a list that
\* is already sorted: after every contour at least as large (the sort is stable)
RECURSIVE InsertByArea(_, _)
InsertByArea(c, s) ==
    IF s = <<>> THEN <<c>>
    ELSE IF Head(s).area >= c.area THEN <<Head(s)>> \o InsertByArea(c, Tail(s))
    ELSE <<c>> \o s

RECURSIVE SortedByArea(_)
SortedByArea(cs) ==
    IF cs = <<>> THEN <<>>
    ELSE InsertByArea(cs[Len(cs)], SortedByArea(SubSeq(cs, 1, Len(cs) - 1)))

\* the slice [:10]
FirstTen(s) == SubSeq(s, 1, IF Len(s) < 10 THEN Len(s) ELSE 10)

None == [found |-> FALSE, approx |-> <<>>]

\* the loop body, from candidate i on; min_ratio is in hundredths
RECURSIVE FirstQuadFrom(_, _, _, _)
FirstQuadFrom(cands, i, image_area, min_ratio) ==
    IF i > Len(cands) THEN None
    ELSE IF cands[i].area * 100 < min_ratio * image_area
         THEN FirstQuadFrom(cands, i + 1, image_area, min_ratio)
    ELSE IF Len(cands[i].approx) = 4
         THEN [found |-> TRUE, approx |-> cands[i].approx]
    ELSE FirstQuadFrom(cands, i + 1, image_area, min_ratio)

\* the contour at least 0.1 of the image that is returned, or None
has_contours(image) ==
    LET image_area == image.h * image.w
    IN  FirstQuadFrom(FirstTen(SortedByArea(image.contours)), 1, image_area, 10)

(***************************************************************************)
(* blur_check.py: deskew_image                                             *)
(***************************************************************************)
\* np.argmin / np.argmax: the first index of the least / greatest value
argmin(v) ==
    CHOOSE i \in 1..Len(v) :
        /\ \A j \in 1..Len(v) : v[i] <= v[j]
        /\ \A j \in 1..(i - 1) : v[j] > v[i]

argmax(v) ==
    CHOOSE i \in 1..Len(v) :
        /\ \A j \in 1..Len(v) : v[i] >= v[j]
        /\ \A j \in 1..(i - 1) : v[j] < v[i]

\* points.sum(axis=1)
sum_coords(points) == [i \in 1..Len(points) |-> points[i][1] + points[i][2]]
\* np.diff(points, axis=1): the second column minus the first, y - x
diff_coords(points) == [i \in 1..Len(points) |-> points[i][2] - points[i][1]]

ordered_corners_argmax(points) ==
    <<points[argmin(sum_coords(points))],
      points[argmax(diff_coords(points))],
      points[argmax(sum_coords(points))],
      points[argmin(diff_coords(points))]>>

\* rect: top-left, top-right, bottom-right, bottom-left
ordered_corners(points) ==
    <<points[argmin(sum_coords(points))],
      points[argmin(diff_coords(points))],
      points[argmax(sum_coords(points))],
      points[argmax(diff_coords(points))]>>

\* int(np.linalg.norm(.)) of a vector whose squared length is n
ISqrt(n) == CHOOSE r \in 0..n : r * r <= n /\ n < (r + 1) * (r + 1)

Dist2(p, q) ==
    (p[1] - q[1]) * (p[1] - q[1]) + (p[2] - q[2]) * (p[2] - q[2])

Max(a, b) == IF a >= b THEN a ELSE b

\* everything deskew_image computes before it calls OpenCV's warp
deskew_image(image, contour) ==
    LET rect == ordered_corners(contour)
        width == ISqrt(Max(Dist2(rect[3], rect[4]), Dist2(rect[2], rect[1])))
        height == ISqrt(Max(Dist2(rect[2], rect[3]), Dist2(rect[1], rect[4])))
        dst == << <<0, 0>>, <<width - 1, 0>>,
                  <<width - 1, height - 1>>, <<0, height - 1>> >>
    IN  [rect |-> rect, dst |-> dst, width |-> width, height |-> height]

(***************************************************************************)
(* blur_check.py: image_preops                                             *)
(*                                                                         *)
(* env is what the run meets outside the code: whether imencode reports    *)
(* success, and whether OpenCV raises when deskew_image asks it for a      *)
(* destination of width or height 0 (the code has no guard: OpenCV then    *)
(* either raises cv2.error or warps into an image of its own choosing).    *)
(***************************************************************************)
Returned(res, msg) == [raised |-> FALSE, result |-> res, error |-> msg]
Raised(exc) == [raised |-> TRUE, result |-> "None", error |-> <<exc>>]

image_preops_resolution_first(image_object, T, env) ==
    IF image_object.readable THEN
      IF ~is_low_resolution(image_object, T.min_width, T.min_height) THEN
        IF ~is_blurry(image_object, T.blur_threshold) THEN
          IF ~is_low_contrast(image_object, T.min_contrast) THEN
            IF ~has_glare(image_object, T.glare_threshold, T.glare_brightness) THEN
              IF ~is_dark(image_object, T.darkness_threshold) THEN
                IF ~is_low_edge_density(image_object, T.min_edge_density) THEN
                  LET contour == has_contours(image_object) IN
                  IF contour.found THEN
                    LET deskewed == deskew_image(image_object, contour.approx) IN
                    IF (deskewed.width <= 0 \/ deskewed.height <= 0) /\ env.cv_raises
                    THEN Raised("cv2.error")
                    ELSE IF env.jpeg_ok THEN Returned("jpg_bytes", <<>>)
                    ELSE Returned("None", <<"Failed to encode image as JPEG!">>)
                  ELSE Returned("None", <<"No Edges Found!", instructions>>)
                ELSE Returned("None", <<"Image has low edges!", instructions>>)
              ELSE Returned("None", <<"Image Too Dark!", instructions>>)
            ELSE Returned("None", <<"Image too Bright!", instructions>>)
          ELSE Returned("None", <<"Image Contrast too Low!", instructions>>)
        ELSE Returned("None", <<"Image too Blurry!", instructions>>)
      ELSE Returned("None", <<"Image resolution too low!", instructions>>)
    ELSE Returned("None", <<"Cannot read image!", instructions>>)

image_preops(image_object, T, env) ==
    IF image_object.readable THEN
      IF ~is_blurry(image_object, T.blur_threshold) THEN
        IF ~is_low_resolution(image_object, T.min_width, T.min_height) THEN
          IF ~is_low_contrast(image_object, T.min_contrast) THEN
            IF ~has_glare(image_object, T.glare_threshold, T.glare_brightness) THEN
              IF ~is_dark(image_object, T.darkness_threshold) THEN
                IF ~is_low_edge_density(image_object, T.min_edge_density) THEN
                  LET contour == has_contours(image_object) IN
                  IF contour.found THEN
                    LET deskewed == deskew_image(image_object, contour.approx) IN
                    IF (deskewed.width <= 0 \/ deskewed.height <= 0) /\ env.cv_raises
                    THEN Raised("cv2.error")
                    ELSE IF env.jpeg_ok THEN Returned("jpg_bytes", <<>>)
                    ELSE Returned("None", <<"Failed to encode image as JPEG!">>)
                  ELSE Returned("None", <<"No Edges Found!", instructions>>)
                ELSE Returned("None", <<"Image has low edges!", instructions>>)
              ELSE Returned("None", <<"Image Too Dark!", instructions>>)
            ELSE Returned("None", <<"Image too Bright!", instructions>>)
          ELSE Returned("None", <<"Image Contrast too Low!", instructions>>)
        ELSE Returned("None", <<"Image resolution too low!", instructions>>)
      ELSE Returned("None", <<"Image too Blurry!", instructions>>)
    ELSE Returned("None", <<"Cannot read image!", instructions>>)

(***************************************************************************)
(* The uploads the task is run on.                                         *)
(***************************************************************************)
Image(w, h, lap_var, gray, edges, contours) ==
    [readable |-> TRUE, w |-> w, h |-> h, lap_var |-> lap_var, gray |-> gray,
     edges |-> edges, contours |-> contours]

\* half the cells at one level, the rest at another
TwoLevel(a, b) == (a :> (Units \div 2)) @@ (b :> (Units - (Units \div 2)))

GrayGood == TwoLevel(64, 192)
GrayFlat == (128 :> Units)
GrayGlare == TwoLevel(64, 255)
GrayDark == TwoLevel(0, 20)
Grays == {GrayGood, GrayFlat, GrayGlare, GrayDark}

LapVars == {0, 25, 100}

Contour(area, approx) == [area |-> area, approx |-> approx]

\* a slightly skewed card filling a third of a 300 x 300 photo
CardQuad ==
    Contour(30000, << <<60, 50>>, <<250, 60>>, <<240, 220>>, <<50, 210>> >>)
\* a card seen as a tall diamond: one corner has both the least x+y and the
\* least y-x, another both the greatest
DiamondQuad ==
    Contour(14400, << <<150, 0>>, <<210, 120>>, <<150, 240>>, <<90, 120>> >>)
\* a card covering 7% of the photo
SmallQuad ==
    Contour(6300, << <<100, 100>>, <<190, 100>>, <<190, 170>>, <<100, 170>> >>)
BigTriangle ==
    Contour(40000, << <<10, 10>>, <<290, 10>>, <<10, 290>> >>)

ContourLists ==
    {<<>>, <<CardQuad>>, <<DiamondQuad>>, <<SmallQuad>>,
     <<SmallQuad, BigTriangle, CardQuad>>}

\* a photo of one flat colour has no Laplacian response, no edges, no contours;
\* a photo without edges has no contours; contours lie inside the photo
Consistent(i) ==
    /\ (i.gray = GrayFlat => i.lap_var = 0 /\ i.edges = 0)
    /\ (i.edges = 0 => i.contours = <<>>)
    /\ (i.contours # <<>> => i.w = 300 /\ i.h = 300)

Images ==
    {i \in {Image(w, h, v, g, e * ((h * w) \div 10), cs) :
               w \in {50, 300}, h \in {50, 300}, v \in LapVars, g \in Grays,
               e \in {0, 1}, cs \in ContourLists} : Consistent(i)}

\* a file that is no image: cv2.imread yields None
CorruptFile == NoneImage

Uploads == Images \cup {CorruptFile}

(***************************************************************************)
(* image_processing.py                                                     *)
(***************************************************************************)
\* encode_image opens its argument as a path.  The task hands it the JPEG
\* bytes image_preops returned, which name no file (they hold a NUL byte):
\* open() raises.
encode_image(image_path) ==
    IF image_path = "jpg_bytes" THEN Raised("ValueError")
    ELSE Returned("base64", <<>>)

\* the chat completion, or the {"error": "Error during analysis: ..."} dict
\* when the API call raised
get_image_analysis(encoded_image, api_ok) == [ok |-> api_ok]

\* the parsed JSON, or the {"error": "Failed to process response: ..."} dict
\* when the response has no choices to parse
process_response(completion) ==
    [kind |-> "dict", status_code |-> 0,
     error |-> IF completion.ok THEN <<>> ELSE <<"Failed to process response: ">>]

(***************************************************************************)
(* app.py                                                                  *)
(***************************************************************************)
max_retries_four == 3 + 1

max_retries == 3

\* preops: whether image_preops was called and ran to its end, the image
\* cv2.imread gave it, and how it ended
NotRun ==
    [ran |-> FALSE, image |-> NoneImage, raised |-> FALSE, result |-> "None",
     error |-> <<>>]
NoResult == [kind |-> "none", status_code |-> 0, error |-> <<>>]
NoResponse == [endpoint |-> "", status_code |-> 0, content |-> <<>>]
NoRet == [fn |-> "", value |-> <<>>]

JSONResponse(endpoint, status_code, content) ==
    [endpoint |-> endpoint, status_code |-> status_code, content |-> content]

\* cv2.imread(image_path)
imread == IF file_exists THEN img ELSE NoneImage

Envs ==
    [unexpected : BOOLEAN,      \* an exception from outside the code is raised
                                \* in the try block (SoftTimeLimitExceeded, ...)
     jpeg_ok : BOOLEAN,         \* cv2.imencode's success flag
     cv_raises : BOOLEAN,       \* OpenCV raises on a destination of size 0
     api_ok : BOOLEAN,          \* the vision model's API call succeeds
     exhausted : {"MaxRetriesExceededError", "exc"}]
                                \* what self.retry(exc=e) raises once the
                                \* retries are spent

\* POST /read_text
process_image(content, broker_ok) ==
    /\ ~queued /\ ~file_exists
    /\ img' = content
    /\ file_exists' = TRUE
    /\ queued' = broker_ok
    /\ response' = IF broker_ok
                   THEN JSONResponse("/read_text", 202, <<"id">>)
                   ELSE JSONResponse("/read_text", 500, <<"Failed to queue image: ">>)
    /\ UNCHANGED <<strictness, state, retries, attempts, preops, result, ret>>

\* what the try block of process_image_task does once image_preops has ended
\* as p: exc is the exception that leaves the block ("" when it returns)
TryBlock(p, env) ==
    [exc |-> IF p.raised THEN p.error[1]
             ELSE IF p.result = "None" THEN ""
             ELSE IF encode_image(p.result).raised
                  THEN encode_image(p.result).error[1]
             ELSE "",
     returned |-> IF p.result = "None"
                  THEN [kind |-> "dict", status_code |-> 422, error |-> p.error]
                  ELSE process_response(
                           get_image_analysis(encode_image(p.result), env.api_ok))]

\* self.retry(exc=e) schedules another run while request.retries < max_retries.
\* Once they are spent it raises, by Celery's rules, MaxRetriesExceededError or
\* the exception it was given: env.exhausted says which, and only the first
\* is caught by the task.
CanRetry(n, limit) == n + 1 <= limit

\* finally: try: os.remove(image_path) except FileNotFoundError: pass
\* whether the file is on disk afterwards.  The clause runs however the try
\* block was left (exc is the exception that left it, "" when it returned,
\* also when the except clause returned or raised), and a file that is
\* already gone is passed over.
os_remove_on_return(exc, exists) == IF exc = "" THEN FALSE ELSE exists

finally_os_remove(exc, exists) == FALSE

\* image_preops on every upload, under every preset and every environment
preops_table ==
    [image \in Uploads, s \in Strictness, jpeg_ok \in BOOLEAN, cv_raises \in BOOLEAN |->
        image_preops(image, thresholds_of(s),
                     [jpeg_ok |-> jpeg_ok, cv_raises |-> cv_raises])]

\* one run of the Celery task
process_image_task(env) ==
    /\ queued
    /\ state \in {"PENDING", "RETRY"}
    /\ attempts' = attempts + 1
    /\ UNCHANGED <<strictness, img, queued, response, ret>>
    /\ \E p \in {IF env.unexpected THEN Raised("SoftTimeLimitExceeded")
                 ELSE preops_table[imread, strictness, env.jpeg_ok,
                                   env.cv_raises]} :
       \E t \in {TryBlock(p, env)} :
       /\ file_exists' = finally_os_remove(t.exc, file_exists)
       /\ preops' = [ran |-> ~env.unexpected, image |-> imread,
                      raised |-> p.raised, result |-> p.result,
                      error |-> p.error]
       /\ IF t.exc = ""
          THEN /\ state' = "SUCCESS"
               /\ result' = t.returned
               /\ retries' = retries
          ELSE IF CanRetry(retries, max_retries)
          THEN /\ state' = "RETRY"
               /\ result' = [kind |-> "exception", status_code |-> 0,
                             error |-> <<"Retry", t.exc>>]
               /\ retries' = retries + 1
          ELSE IF env.exhausted = "MaxRetriesExceededError"
          THEN /\ state' = "SUCCESS"
               /\ result' = [kind |-> "dict", status_code |-> 500,
                             error |-> <<"Image processing failed after 3 retries: ",
                                         t.exc>>]
               /\ retries' = retries
          ELSE /\ state' = "FAILURE"
               /\ result' = [kind |-> "exception", status_code |-> 0,
                             error |-> <<t.exc>>]
               /\ retries' = retries

\* GET /id, with a result backend that answers (the handler's own except
\* branch, a 400, needs the backend to raise)
get_task_status ==
    /\ response' =
         IF state = "PENDING"
         THEN JSONResponse("/id", 202, <<"Processing">>)
         ELSE IF state = "SUCCESS"
         THEN IF result.kind = "dict" /\ result.status_code = 422
              THEN JSONResponse("/id", 422, result.error)
              ELSE JSONResponse("/id", 200, result.error)
         ELSE IF state = "FAILURE"
         THEN JSONResponse("/id", 500, result.error)
         ELSE JSONResponse("/id", 404, <<"Task ID not found">>)
    /\ UNCHANGED <<strictness, img, file_exists, queued, state, retries,
                   attempts, preops, result, ret>>

Init ==
    /\ strictness \in Strictness
    /\ img = NoneImage
    /\ file_exists = FALSE
    /\ queued = FALSE
    /\ state = "PENDING"
    /\ retries = 0
    /\ attempts = 0
    /\ preops = NotRun
    /\ result = NoResult
    /\ response = NoResponse
    /\ ret = NoRet

Next ==
    \/ \E content \in Uploads, broker_ok \in BOOLEAN :
           process_image(content, broker_ok)
    \/ \E env \in Envs : process_image_task(env)
    \/ get_task_status

Spec == Init /\ [][Next]_vars

\* the worker runs a queued or retried task
FairSpec == Spec /\ WF_vars(\E env \in Envs : process_image_task(env))

(***************************************************************************)
(* The quality gate's order (C1, C2)                                       *)
(***************************************************************************)
Checks == <<"blur", "resolution", "contrast", "glare", "dark", "edges">>

Fails(c, image, T) ==
    CASE c = "blur" -> is_blurry(image, T.blur_threshold)
      [] c = "resolution" -> is_low_resolution(image, T.min_width, T.min_height)
      [] c = "contrast" -> is_low_contrast(image, T.min_contrast)
      [] c = "glare" -> has_glare(image, T.glare_threshold, T.glare_brightness)
      [] c = "dark" -> is_dark(image, T.darkness_threshold)
      [] c = "edges" -> is_low_edge_density(image, T.min_edge_density)

Message(c) ==
    CASE c = "blur" -> "Image too Blurry!"
      [] c = "resolution" -> "Image resolution too low!"
      [] c = "contrast" -> "Image Contrast too Low!"
      [] c = "glare" -> "Image too Bright!"
      [] c = "dark" -> "Image Too Dark!"
      [] c = "edges" -> "Image has low edges!"

CheckMessages == {Message(Checks[i]) : i \in 1..Len(Checks)}

\* the last run of the task called image_preops on a readable image
GateRan == preops.ran /\ preops.image.readable

FirstFailing(i) ==
    /\ Fails(Checks[i], preops.image, thresholds)
    /\ \A j \in 1..(i - 1) : ~Fails(Checks[j], preops.image, thresholds)

\* C1: on a readable image image_preops reports exactly one failure, the
\* first check that fails in the order blur, resolution, contrast, glare,
\* darkness, edge density; with no failing check it reports none of them.
C1_FirstFailingCheckReported ==
    GateRan =>
        /\ \A i \in 1..Len(Checks) :
               FirstFailing(i) =>
                   /\ ~preops.raised
                   /\ preops.result = "None"
                   /\ preops.error = <<Message(Checks[i]), instructions>>
        /\ (\A i \in 1..Len(Checks) : ~Fails(Checks[i], preops.image, thresholds))
               => \A k \in 1..Len(preops.error) : preops.error[k] \notin CheckMessages

\* a blurry image that is also too small was reported as blurry
C1_Witness ==
    /\ GateRan
    /\ is_blurry(preops.image, thresholds.blur_threshold)
    /\ preops.image.w < thresholds.min_width
    /\ preops.error = <<"Image too Blurry!", instructions>>

TooSmall ==
    \/ preops.image.w < thresholds.min_width
    \/ preops.image.h < thresholds.min_height

\* C2 as claimed: an image below the minimum width or height always fails
\* with the low-resolution reason, whatever else holds of it.
C2_AlwaysLowResolution ==
    (GateRan /\ TooSmall) =>
        preops.error = <<"Image resolution too low!", instructions>>

\* C2 as amended: an image below the minimum width or height always fails;
\* the reason is low resolution exactly when its Laplacian variance is not
\* below the blur threshold, and blur otherwise.
C2_LowResolutionUnlessBlurry ==
    (GateRan /\ TooSmall) =>
        /\ ~preops.raised
        /\ preops.result = "None"
        /\ preops.error =
             IF preops.image.lap_var < thresholds.blur_threshold
             THEN <<"Image too Blurry!", instructions>>
             ELSE <<"Image resolution too low!", instructions>>

\* a sharp image that is only too narrow was reported as low resolution
C2_Witness ==
    /\ GateRan
    /\ preops.image.w < thresholds.min_width
    /\ preops.image.h >= thresholds.min_height
    /\ preops.image.lap_var >= thresholds.blur_threshold
    /\ preops.error = <<"Image resolution too low!", instructions>>

(***************************************************************************)
(* Status codes (C3)                                                       *)
(***************************************************************************)
Finished == state \in {"SUCCESS", "FAILURE"}

QualityMessages == CheckMessages \cup {"No Edges Found!"}

IsQualityFailure(r) ==
    r.kind = "dict" /\ r.error # <<>> /\ r.error[1] \in QualityMessages

IsUnexpectedError(r) ==
    \/ r.kind = "exception"
    \/ /\ r.kind = "dict"
       /\ r.error # <<>>
       /\ r.error[1] \in {"Failed to encode image as JPEG!",
                          "Image processing failed after 3 retries: "}

\* C3: for a finished task GET /id answers a quality failure with 422 and an
\* unexpected pipeline error (JPEG encoding failure, an exception that
\* survived the retries) with a 5xx status.
C3_StatusClasses ==
    [][(Finished /\ get_task_status) =>
          /\ IsQualityFailure(result) => response'.status_code = 422
          /\ IsUnexpectedError(result) => response'.status_code \in 500..599]_vars

(***************************************************************************)
(* Failures as values (C4, C5)                                             *)
(***************************************************************************)
\* the image passes the six checks and its contour gives deskew_image a
\* target of width or height 0
DegenerateContour(image, T) ==
    /\ image.readable
    /\ \A i \in 1..Len(Checks) : ~Fails(Checks[i], image, T)
    /\ has_contours(image).found
    /\ LET d == deskew_image(image, has_contours(image).approx)
       IN  d.width <= 0 \/ d.height <= 0

OtherMessages ==
    QualityMessages \cup {"Cannot read image!", "Failed to encode image as JPEG!"}

\* C4: image_preops never raises; on a contour whose target width or height
\* is 0 it returns (None, error) with an error of its own for the failed
\* rectification.
C4_FailuresAreValues ==
    preops.ran =>
        /\ ~preops.raised
        /\ DegenerateContour(preops.image, thresholds) =>
               /\ preops.result = "None"
               /\ preops.error # <<>>
               /\ preops.error[1] \notin OtherMessages

CarriesInstructions(msg) == \E k \in 1..Len(msg) : msg[k] = instructions

\* C5: the error for an input that cannot be decoded carries no instructions
\* block, the errors of the quality checks and of the missing boundary do.
C5_UnreadableWithoutInstructions ==
    preops.ran =>
        /\ ~preops.image.readable => ~CarriesInstructions(preops.error)
        /\ (preops.error # <<>> /\ preops.error[1] \in QualityMessages)
               => CarriesInstructions(preops.error)

(***************************************************************************)
(* Retries (C7), under FairSpec                                            *)
(***************************************************************************)
\* the run that just ended left its try block by an exception: one from
\* outside, one image_preops raised, or encode_image's
RunRaised ==
    \/ ~preops'.ran
    \/ preops'.raised
    \/ preops'.result # "None"

\* the run that just ended got an error value from image_preops
RunGotErrorValue ==
    /\ attempts' # attempts
    /\ preops'.ran
    /\ ~preops'.raised
    /\ preops'.result = "None"

RetriesSpent ==
    /\ result.kind = "dict"
    /\ result.error # <<>>
    /\ result.error[1] = "Image processing failed after 3 retries: "

\* C7: a retry is scheduled only by a run that raised, never by one to which
\* image_preops reported a failure (that run ends the task with the 422
\* result); a task runs at most 1 + 3 times, the "failed after 3 retries"
\* value is returned by the fourth run only, and every queued task ends.
C7_RetryPolicy ==
    /\ [][(retries' # retries) =>
             /\ retries' = retries + 1
             /\ state' = "RETRY"
             /\ RunRaised]_vars
    /\ [][RunGotErrorValue =>
             /\ state' = "SUCCESS"
             /\ result'.status_code = 422
             /\ retries' = retries]_vars
    /\ [](attempts <= 1 + 3)
    /\ [](RetriesSpent => attempts = 1 + 3)
    /\ (queued ~> Finished)

\* the fourth run of a task returned the "failed after 3 retries" value
C7_Witness == attempts = 4 /\ state = "SUCCESS" /\ RetriesSpent

(***************************************************************************)
(* The uploaded file (C11)                                                 *)
(***************************************************************************)
\* a run of process_image_task ends in this step
RunEnds == attempts' # attempts

\* the run that ends in this step is a retried one
RetriedRunEnds == RunEnds /\ attempts >= 1

\* C11: after any run of process_image_task has ended (with a result, with
\* the 422 quality error, with a retry scheduled or with its retries spent)
\* the uploaded file is no longer on disk; so every retried run starts
\* without the file, and image_preops, when that run calls it, reads no image
\* and reports "Cannot read image!".
C11_FileRemovedAfterEveryRun ==
    /\ [][RunEnds => ~file_exists']_vars
    /\ [](attempts >= 1 => ~file_exists)
    /\ [](state = "RETRY" => ~file_exists)
    /\ [][RetriedRunEnds =>
             /\ ~file_exists
             /\ preops'.ran =>
                    /\ preops'.image = NoneImage
                    /\ ~preops'.raised
                    /\ preops'.result = "None"
                    /\ preops'.error = <<"Cannot read image!", instructions>>]_vars

\* the upload was a readable image whose first run raised and scheduled a
\* retry; the retried run called image_preops, which found no file, and the
\* task ended with the 422 error
C11_Witness ==
    /\ img.readable
    /\ attempts = 2
    /\ retries = 1
    /\ ~file_exists
    /\ preops.ran
    /\ preops.image = NoneImage
    /\ preops.error = <<"Cannot read image!", instructions>>
    /\ state = "SUCCESS"
    /\ result.status_code = 422

(***************************************************************************)
(* The six checks applied on their own (C6, C9): SpecChecks                *)
(***************************************************************************)
\* the k-tuples of naturals that sum to n
RECURSIVE Compositions(_, _)
Compositions(k, n) ==
    IF k = 1 THEN {<<n>>}
    ELSE UNION {{<<a>> \o c : c \in Compositions(k - 1, n - a)} : a \in 0..n}

\* every way to spread Units cells over the levels
Histograms(levels) ==
    {[l \in {levels[i] : i \in 1..Len(levels)} |->
         c[CHOOSE i \in 1..Len(levels) : levels[i] = l]] :
       c \in Compositions(Len(levels), Units)}

\* levels below, at and above the three glare_brightness cutoffs
BrightLevels == <<128, 235, 245, 250, 255>>
\* levels around the darkness and contrast thresholds
DarkLevels == <<0, 10, 24, 40, 128>>

\* sharp 300 x 300 photos of every histogram
GrayImages ==
    {Image(300, 300, 100, g, 9000, <<>>) :
        g \in Histograms(BrightLevels) \cup Histograms(DarkLevels)}

\* photos of every size, Laplacian variance and edge count at and around the
\* presets' thresholds
ScalarImages ==
    {Image(w, h, v, GrayGood, (e * h * w) \div 1000, <<>>) :
        w \in {149, 150, 199, 200, 299, 300},
        h \in {99, 100, 149, 150, 249, 250},
        v \in {0, 19, 20, 29, 30, 79, 80},
        e \in {0, 1, 2, 3, 7, 8}}

CheckImages == GrayImages \cup ScalarImages

CheckNames == {Checks[i] : i \in 1..Len(Checks)}

\* one of the six predicates applied to img under the selected preset
CallCheck(c) ==
    /\ ret = NoRet
    /\ ret' = [fn |-> c, value |-> Fails(c, img, thresholds)]
    /\ UNCHANGED <<strictness, img, file_exists, queued, state, retries,
                   attempts, preops, result, response>>

InitChecks ==
    /\ strictness \in Strictness
    /\ img \in CheckImages
    /\ file_exists = FALSE
    /\ queued = FALSE
    /\ state = "PENDING"
    /\ retries = 0
    /\ attempts = 0
    /\ preops = NotRun
    /\ result = NoResult
    /\ response = NoResponse
    /\ ret = NoRet

NextChecks == \E c \in CheckNames : CallCheck(c)

SpecChecks == InitChecks /\ [][NextChecks]_vars

(***************************************************************************)
(* Preset ordering (C6), under SpecChecks                                  *)
(***************************************************************************)
\* b rejects at least what a rejects, field by field
AtLeastAsStrict(b, a) ==
    /\ b.blur_threshold >= a.blur_threshold
    /\ b.glare_threshold <= a.glare_threshold
    /\ b.glare_brightness <= a.glare_brightness
    /\ b.darkness_threshold >= a.darkness_threshold
    /\ b.min_contrast >= a.min_contrast
    /\ b.min_width >= a.min_width
    /\ b.min_height >= a.min_height
    /\ b.min_doc_area_ratio >= a.min_doc_area_ratio
    /\ b.min_edge_density >= a.min_edge_density

CellsIn(gray, S) ==
    SumF([l \in DOMAIN gray |-> IF l \in S THEN gray[l] ELSE 0], DOMAIN gray)

AtOrAbove(gray, cutoff) == {l \in DOMAIN gray : l >= cutoff}
Above(gray, cutoff) == {l \in DOMAIN gray : l > cutoff}

\* C9 as claimed: the glare check counts the pixels at or above the cutoff and
\* fails exactly when their fraction is greater than the ratio threshold.
C9_CountsAtOrAboveCutoff ==
    ret.fn = "glare" =>
        (ret.value <=>
            CellsIn(img.gray, AtOrAbove(img.gray, thresholds.glare_brightness)) * 100
                > thresholds.glare_threshold * NumCells(img.gray))

\* C9 as amended: the glare check counts the pixels strictly above the cutoff
\* (a pixel equal to the cutoff is not counted) and fails exactly when their
\* fraction is strictly greater than the ratio threshold.
C9_CountsAboveCutoff ==
    ret.fn = "glare" =>
        (ret.value <=>
            CellsIn(img.gray, Above(img.gray, thresholds.glare_brightness)) * 100
                > thresholds.glare_threshold * NumCells(img.gray))

\* the pixels at the cutoff alone exceed the ratio threshold, those above it
\* are exactly at the threshold, and the check passed the image
C9_Witness ==
    /\ ret.fn = "glare"
    /\ thresholds.glare_brightness \in DOMAIN img.gray
    /\ img.gray[thresholds.glare_brightness] * 100
           > thresholds.glare_threshold * NumCells(img.gray)
    /\ CellsIn(img.gray, Above(img.gray, thresholds.glare_brightness)) * 100
           = thresholds.glare_threshold * NumCells(img.gray)
    /\ ret.value = FALSE

(***************************************************************************)
(* has_contours and deskew_image applied on their own (C8, C10):           *)
(* SpecGeometry                                                            *)
(***************************************************************************)
Points == (0..MaxCoord) \X (0..MaxCoord)

\* four different points, in any order
Quads ==
    {q \in [1..4 -> Points] : \A i, j \in 1..4 : i # j => q[i] # q[j]}

\* a photo with one contour, approximated by the polygon q
QuadImages ==
    {Image(MaxCoord + 1, MaxCoord + 1, 100, GrayGood, MaxCoord, <<Contour(1, q)>>) :
        q \in Quads}

\* a polygon of n vertices that tells the contour of area a from the others
Polygon(n, a) == [i \in 1..n |-> <<a, i>>]

\* contours of 2%, 4%, 7%, 10% and 50% of a 10 x 10 photo, approximated by
\* triangles, quadrilaterals and pentagons
ContourKinds ==
    {Contour(a, Polygon(n, a)) : a \in {2, 4, 7, 10, 50}, n \in {3, 4, 5}}

RECURSIVE SeqsUpTo(_, _)
SeqsUpTo(S, n) ==
    IF n = 0 THEN {<<>>}
    ELSE SeqsUpTo(S, n - 1) \cup
         {Append(q, x) : q \in {r \in SeqsUpTo(S, n - 1) : Len(r) = n - 1}, x \in S}

\* 9, 10 or 11 large triangles and one quadrilateral smaller than they are
ManyTriangles(k) ==
    [i \in 1..(k + 1) |->
        IF i = 1 THEN Contour(30, Polygon(4, 30)) ELSE Contour(50, Polygon(3, 50))]

ContourImages ==
    {Image(10, 10, 100, GrayGood, 10, cs) :
        cs \in SeqsUpTo(ContourKinds, MaxContours)
               \cup {ManyTriangles(k) : k \in 9..11}}

GeometryImages == QuadImages \cup ContourImages

CallHasContours ==
    /\ ret = NoRet
    /\ ret' = [fn |-> "has_contours", value |-> has_contours(img)]
    /\ UNCHANGED <<strictness, img, file_exists, queued, state, retries,
                   attempts, preops, result, response>>

\* deskew_image on the contour has_contours could hand it
CallDeskew ==
    /\ ret = NoRet
    /\ Len(img.contours) = 1
    /\ Len(img.contours[1].approx) = 4
    /\ ret' = [fn |-> "deskew_image",
               value |-> deskew_image(img, img.contours[1].approx)]
    /\ UNCHANGED <<strictness, img, file_exists, queued, state, retries,
                   attempts, preops, result, response>>

InitGeometry ==
    /\ strictness \in Strictness
    /\ img \in GeometryImages
    /\ file_exists = FALSE
    /\ queued = FALSE
    /\ state = "PENDING"
    /\ retries = 0
    /\ attempts = 0
    /\ preops = NotRun
    /\ result = NoResult
    /\ response = NoResponse
    /\ ret = NoRet

NextGeometry == CallHasContours \/ CallDeskew

SpecGeometry == InitGeometry /\ [][NextGeometry]_vars

(***************************************************************************)
(* Corner assignment (C8), under SpecGeometry                              *)
(***************************************************************************)
\* p is one of the points of pts and none of them has a smaller F
LeastBy(p, pts, F(_)) ==
    /\ \E i \in 1..Len(pts) : pts[i] = p
    /\ \A i \in 1..Len(pts) : F(p) <= F(pts[i])

GreatestBy(p, pts, F(_)) ==
    /\ \E i \in 1..Len(pts) : pts[i] = p
    /\ \A i \in 1..Len(pts) : F(p) >= F(pts[i])

XPlusY(p) == p[1] + p[2]
XMinusY(p) == p[1] - p[2]
YMinusX(p) == p[2] - p[1]

DstInOrder(d) ==
    d.dst = << <<0, 0>>, <<d.width - 1, 0>>,
               <<d.width - 1, d.height - 1>>, <<0, d.height - 1>> >>

\* C8 as claimed: top-left has the least x+y, bottom-right the greatest,
\* top-right the least x-y and bottom-left the greatest x-y; the corners are
\* paired in that order with (0,0), (w-1,0), (w-1,h-1), (0,h-1).
C8_CornersByXMinusY ==
    ret.fn = "deskew_image" =>
        LET pts == img.contours[1].approx
            rect == ret.value.rect
        IN  /\ LeastBy(rect[1], pts, XPlusY)
            /\ LeastBy(rect[2], pts, XMinusY)
            /\ GreatestBy(rect[3], pts, XPlusY)
            /\ GreatestBy(rect[4], pts, XMinusY)
            /\ DstInOrder(ret.value)

\* C8 as amended: the difference is y-x: top-right has the least y-x (the
\* greatest x-y) and bottom-left the greatest y-x; the rest as claimed.
C8_CornersByYMinusX ==
    ret.fn = "deskew_image" =>
        LET pts == img.contours[1].approx
            rect == ret.value.rect
        IN  /\ LeastBy(rect[1], pts, XPlusY)
            /\ LeastBy(rect[2], pts, YMinusX)
            /\ GreatestBy(rect[3], pts, XPlusY)
            /\ GreatestBy(rect[4], pts, YMinusX)
            /\ DstInOrder(ret.value)

\* an upright rectangle given bottom-left first came out as top-left,
\* top-right, bottom-right, bottom-left
C8_Witness ==
    /\ ret.fn = "deskew_image"
    /\ img.contours[1].approx =
           << <<0, 2>>, <<0, 0>>, <<MaxCoord, 0>>, <<MaxCoord, 2>> >>
    /\ ret.value.rect =
           << <<0, 0>>, <<MaxCoord, 0>>, <<MaxCoord, 2>>, <<0, 2>> >>
    /\ ret.value.width = MaxCoord
    /\ ret.value.height = 2

(***************************************************************************)
(* Contour selection (C10), under SpecGeometry                             *)
(***************************************************************************)
\* C10: has_contours returns the first of the 10 largest contours, largest
\* first, that is not below the selected preset's min_doc_area_ratio and
\* whose approximation has 4 vertices, or None; it returns nothing else.
C10_ProfileAreaRatio ==
    ret.fn = "has_contours" =>
        /\ ret.value = FirstQuadFrom(FirstTen(SortedByArea(img.contours)), 1,
                                     img.h * img.w, thresholds.min_doc_area_ratio)
        /\ ret.value.found => Len(ret.value.approx) = 4

====
